---- MODULE Spec2Model ----
(***************************************************************************)
(* Burger shop server (server.cpp) and its client (client.cpp).            *)
(*                                                                         *)
(* Threads of the server: main (starts the chefs, accepts connections),    *)
(* one chefFunction thread per chef, one clientHandler thread per accepted *)
(* connection.  Each session has a client process running client.cpp.      *)
(* Shared state: burgersPrepared, burgersServed, serverRunning (atomics),  *)
(* the mutex mtx and the condition variable cv_burger_ready.               *)
(***************************************************************************)
EXTENDS Integers, Sequences, FiniteSets, TLC

\* ---- bounds of the model ----
MaxQuota == 2
MaxChefs == 2
MaxSessions == 2
MaxOrders == 2

Chefs == 1..MaxChefs
Sessions == 1..MaxSessions

\* the two response texts of the server
BurgerServed == "Burger Served"
NoMoreBurgers == "No more burgers"

\* thread identities, for the owner of mtx
NoThread == <<"none", 0>>
ChefThread(c) == <<"chef", c>>
HandlerThread(s) == <<"handler", s>>

VARIABLES
  maxBurgers,       \* server.cpp:34, set from argv[1]
  numChefs,         \* server.cpp:35, set from argv[2]
  burgersPrepared,  \* server.cpp:32
  burgersServed,    \* server.cpp:33
  serverRunning,    \* server.cpp:36
  mtx,              \* server.cpp:30, the thread that owns the mutex
  mainpc,           \* position of the server's main thread
  backlog,          \* connections completed by the kernel, not yet accepted
  chefpc,           \* position of each chef thread
  hpc,              \* position of each client handler thread
  ordersProcessed,  \* server.cpp:137, local of each handler
  nrecv,            \* number of requests recv() has returned to each handler
  inbox,            \* requests sent by the client, not yet received
  sent,             \* every message the handler has sent on the session, in order
  rd,               \* how many of those messages the client has read
  clientpc,         \* position of each client process
  orderNo,          \* client.cpp:80, the loop counter i
  maxOrders,        \* client.cpp:36, set from argv[3]
  numClients,       \* how many client processes are started
  clog,             \* the client's reading of each response it got
  shutWaiters       \* handlers that were blocked in wait() when the shop closed

vars == <<maxBurgers, numChefs, burgersPrepared, burgersServed, serverRunning,
          mtx, mainpc, backlog, chefpc, hpc, ordersProcessed, nrecv, inbox,
          sent, rd, clientpc, orderNo, maxOrders, numClients, clog,
          shutWaiters>>

serverVars == <<burgersPrepared, burgersServed, serverRunning>>
configVars == <<maxBurgers, numChefs, maxOrders, numClients>>

\* a message on the wire: the text, the request it was sent after, and for a
\* served burger the number printed by "Served burger #"
Msg(text, req, unit) == [text |-> text, req |-> req, unit |-> unit]

\* ---- construction ----
Init ==
  /\ maxBurgers \in 0..MaxQuota
  /\ numChefs \in 1..MaxChefs
  /\ burgersPrepared = 0
  /\ burgersServed = 0
  /\ serverRunning = TRUE
  /\ mtx = NoThread
  /\ mainpc = "spawn"
  /\ backlog = <<>>
  /\ chefpc = [c \in Chefs |-> "idle"]
  /\ hpc = [s \in Sessions |-> "none"]
  /\ ordersProcessed = [s \in Sessions |-> 0]
  /\ nrecv = [s \in Sessions |-> 0]
  /\ inbox = [s \in Sessions |-> 0]
  /\ sent = [s \in Sessions |-> <<>>]
  /\ rd = [s \in Sessions |-> 0]
  /\ clientpc = [s \in Sessions |-> "init"]
  /\ orderNo = [s \in Sessions |-> 0]
  /\ maxOrders \in [Sessions -> 1..MaxOrders]
  /\ numClients \in 1..MaxSessions
  /\ clog = [s \in Sessions |-> <<>>]
  /\ shutWaiters = {}

\* ---- server main ----
\* lines 68-75: start the chef threads, bind and listen
MainSpawn ==
  /\ mainpc = "spawn"
  /\ chefpc' = [c \in Chefs |-> IF c <= numChefs THEN "lock" ELSE "idle"]
  /\ mainpc' = "test"
  /\ UNCHANGED <<serverVars, configVars, mtx, backlog, hpc, ordersProcessed,
                 nrecv, inbox, sent, rd, clientpc, orderNo, clog, shutWaiters>>

\* line 79: while (serverRunning)
MainTest ==
  /\ mainpc = "test"
  /\ mainpc' = IF serverRunning THEN "accept" ELSE "join"
  /\ UNCHANGED <<serverVars, configVars, mtx, backlog, chefpc, hpc,
                 ordersProcessed, nrecv, inbox, sent, rd, clientpc, orderNo,
                 clog, shutWaiters>>

\* lines 80-83: accept() blocks until a connection is pending, then a handler
\* thread is started for it
MainAccept ==
  /\ mainpc = "accept"
  /\ backlog # <<>>
  /\ hpc' = [hpc EXCEPT ![Head(backlog)] = "guard"]
  /\ backlog' = Tail(backlog)
  /\ mainpc' = "test"
  /\ UNCHANGED <<serverVars, configVars, mtx, chefpc, ordersProcessed, nrecv,
                 inbox, sent, rd, clientpc, orderNo, clog, shutWaiters>>

\* lines 87-102: join every handler and every chef, then close and return
MainJoin ==
  /\ mainpc = "join"
  /\ \A s \in Sessions : hpc[s] \in {"none", "done"}
  /\ \A c \in Chefs : chefpc[c] \in {"idle", "done"}
  /\ mainpc' = "exit"
  /\ UNCHANGED <<serverVars, configVars, mtx, backlog, chefpc, hpc,
                 ordersProcessed, nrecv, inbox, sent, rd, clientpc, orderNo,
                 clog, shutWaiters>>

\* ---- the mutex ----
\* a lock that never excludes anybody
MutexNeverHeld(owner) == TRUE

\* unique_lock<mutex> lock(mtx) returns only when no thread owns mtx
MutexFree(owner) == owner = NoThread

\* ---- chefFunction ----
\* the quota test off by one
QuotaReachedLate(prepared, quota) == prepared > quota

\* the quota test one burger early
QuotaReachedEarly(prepared, quota) == prepared >= quota - 1

\* line 118: if (burgersPrepared >= maxBurgers) break;
QuotaReached(prepared, quota) == prepared >= quota

\* lines 117-118: take the mutex, then the quota test; break leaves the block,
\* which releases the lock, and the thread ends
ChefLock(c) ==
  /\ chefpc[c] = "lock"
  /\ MutexFree(mtx)
  /\ IF QuotaReached(burgersPrepared, maxBurgers)
       THEN /\ chefpc' = [chefpc EXCEPT ![c] = "done"]
            /\ mtx' = NoThread
       ELSE /\ chefpc' = [chefpc EXCEPT ![c] = "inc"]
            /\ mtx' = ChefThread(c)
  /\ UNCHANGED <<serverVars, configVars, mainpc, backlog, hpc, ordersProcessed,
                 nrecv, inbox, sent, rd, clientpc, orderNo, clog, shutWaiters>>

\* lines 119-121: burgersPrepared++, the status line, end of the block
ChefInc(c) ==
  /\ chefpc[c] = "inc"
  /\ burgersPrepared' = burgersPrepared + 1
  /\ mtx' = NoThread
  /\ chefpc' = [chefpc EXCEPT ![c] = "notify"]
  /\ UNCHANGED <<burgersServed, serverRunning, configVars, mainpc, backlog, hpc,
                 ordersProcessed, nrecv, inbox, sent, rd, clientpc, orderNo,
                 clog, shutWaiters>>

\* notify_one instead of notify_all: only the first waiter is unblocked
NotifyOne(pcs) ==
  [s \in Sessions |->
     IF pcs[s] = "wait" /\ \A o \in Sessions : o < s => pcs[o] # "wait"
       THEN "relock" ELSE pcs[s]]

\* cv_burger_ready.notify_all(): every thread blocked in wait() is unblocked
\* and has to take the mutex again before wait() returns
NotifyAll(pcs) == [s \in Sessions |-> IF pcs[s] = "wait" THEN "relock" ELSE pcs[s]]

\* a chef that goes on without notifying
ChefNotifySkipped(c) ==
  /\ chefpc[c] = "notify"
  /\ chefpc' = [chefpc EXCEPT ![c] = "lock"]
  /\ UNCHANGED <<serverVars, configVars, mtx, mainpc, backlog, hpc,
                 ordersProcessed, nrecv, inbox, sent, rd, clientpc, orderNo,
                 clog, shutWaiters>>

\* lines 122-123: notify_all, then the preparation time passes
ChefNotify(c) ==
  /\ chefpc[c] = "notify"
  /\ hpc' = NotifyAll(hpc)
  /\ chefpc' = [chefpc EXCEPT ![c] = "lock"]
  /\ UNCHANGED <<serverVars, configVars, mtx, mainpc, backlog, ordersProcessed,
                 nrecv, inbox, sent, rd, clientpc, orderNo, clog, shutWaiters>>

\* ---- clientHandler ----
\* line 139: while (serverRunning && ordersProcessed < maxBurgers)
LoopGuard(running, processed, quota) == running /\ processed < quota

\* line 153: burgersPrepared > burgersServed (the client sends only "Order",
\* so the strcmp of that line is true for every request)
BurgerAvailable(prepared, served) == prepared > served

\* the sold-out test off by one
SoldOutLate(served, quota) == served > quota

\* the sold-out test one burger early
SoldOutEarly(served, quota) == served >= quota - 1

\* line 158: if (burgersServed >= maxBurgers)
SoldOut(served, quota) == served >= quota

\* line 139, and line 170 when the loop is left: the handler reads the atomics
\* without the mutex
HGuard(s) ==
  /\ hpc[s] = "guard"
  /\ hpc' = [hpc EXCEPT ![s] =
               IF LoopGuard(serverRunning, ordersProcessed[s], maxBurgers)
                 THEN "recv" ELSE "done"]
  /\ UNCHANGED <<serverVars, configVars, mtx, mainpc, backlog, chefpc,
                 ordersProcessed, nrecv, inbox, sent, rd, clientpc, orderNo,
                 clog, shutWaiters>>

\* a handler that takes the mutex before it looks at bytesReceived and leaves
\* the loop without giving it back
HRecvKeepsLock(s) ==
  /\ hpc[s] = "recv"
  /\ \/ /\ inbox[s] > 0
        /\ inbox' = [inbox EXCEPT ![s] = @ - 1]
        /\ nrecv' = [nrecv EXCEPT ![s] = @ + 1]
        /\ hpc' = [hpc EXCEPT ![s] = "lock"]
        /\ mtx' = mtx
     \/ /\ inbox[s] = 0
        /\ clientpc[s] = "done"
        /\ MutexFree(mtx)
        /\ mtx' = HandlerThread(s)
        /\ hpc' = [hpc EXCEPT ![s] = "done"]
        /\ UNCHANGED <<inbox, nrecv>>
  /\ UNCHANGED <<serverVars, configVars, mainpc, backlog, chefpc,
                 ordersProcessed, sent, rd, clientpc, orderNo, clog,
                 shutWaiters>>

\* lines 141-150: recv() blocks until a request arrives or the client has
\* closed; bytesReceived <= 0 leaves the loop and closes the socket
HRecv(s) ==
  /\ hpc[s] = "recv"
  /\ \/ /\ inbox[s] > 0
        /\ inbox' = [inbox EXCEPT ![s] = @ - 1]
        /\ nrecv' = [nrecv EXCEPT ![s] = @ + 1]
        /\ hpc' = [hpc EXCEPT ![s] = "lock"]
     \/ /\ inbox[s] = 0
        /\ clientpc[s] = "done"
        /\ hpc' = [hpc EXCEPT ![s] = "done"]
        /\ UNCHANGED <<inbox, nrecv>>
  /\ UNCHANGED <<serverVars, configVars, mtx, mainpc, backlog, chefpc,
                 ordersProcessed, sent, rd, clientpc, orderNo, clog,
                 shutWaiters>>

\* lines 152-153 and 165-166: take the mutex, then the availability test; when
\* it fails the handler calls cv_burger_ready.wait(lock), which releases the
\* mutex and blocks
HLock(s) ==
  /\ hpc[s] = "lock"
  /\ MutexFree(mtx)
  /\ IF BurgerAvailable(burgersPrepared, burgersServed)
       THEN /\ hpc' = [hpc EXCEPT ![s] = "serve"]
            /\ mtx' = HandlerThread(s)
       ELSE /\ hpc' = [hpc EXCEPT ![s] = "wait"]
            /\ mtx' = NoThread
  /\ UNCHANGED <<serverVars, configVars, mainpc, backlog, chefpc,
                 ordersProcessed, nrecv, inbox, sent, rd, clientpc, orderNo,
                 clog, shutWaiters>>

\* the grant without ordersProcessed++
HServeUncounted(s) ==
  /\ hpc[s] = "serve"
  /\ burgersServed' = burgersServed + 1
  /\ sent' = [sent EXCEPT ![s] =
                Append(@, Msg(BurgerServed, nrecv[s], burgersServed + 1))]
  /\ IF SoldOut(burgersServed + 1, maxBurgers)
       THEN /\ hpc' = [hpc EXCEPT ![s] = "shut"]
            /\ mtx' = mtx
       ELSE /\ hpc' = [hpc EXCEPT ![s] = "guard"]
            /\ mtx' = NoThread
  /\ UNCHANGED <<burgersPrepared, serverRunning, configVars, mainpc, backlog,
                 chefpc, ordersProcessed, nrecv, inbox, rd, clientpc, orderNo,
                 clog, shutWaiters>>

\* lines 154-158: burgersServed++, send "Burger Served", ordersProcessed++;
\* when the shop is not sold out the iteration ends and the lock is released
HServe(s) ==
  /\ hpc[s] = "serve"
  /\ burgersServed' = burgersServed + 1
  /\ sent' = [sent EXCEPT ![s] =
                Append(@, Msg(BurgerServed, nrecv[s], burgersServed + 1))]
  /\ ordersProcessed' = [ordersProcessed EXCEPT ![s] = @ + 1]
  /\ IF SoldOut(burgersServed + 1, maxBurgers)
       THEN /\ hpc' = [hpc EXCEPT ![s] = "shut"]
            /\ mtx' = mtx
       ELSE /\ hpc' = [hpc EXCEPT ![s] = "guard"]
            /\ mtx' = NoThread
  /\ UNCHANGED <<burgersPrepared, serverRunning, configVars, mainpc, backlog,
                 chefpc, nrecv, inbox, rd, clientpc, orderNo, clog, shutWaiters>>

\* the shutdown block without its break: the handler goes round the loop again
HShutNoBreak(s) ==
  /\ hpc[s] = "shut"
  /\ serverRunning' = FALSE
  /\ hpc' = [NotifyAll(hpc) EXCEPT ![s] = "guard"]
  /\ shutWaiters' = shutWaiters \cup {w \in Sessions : hpc[w] = "wait"}
  /\ sent' = [sent EXCEPT ![s] = Append(@, Msg(NoMoreBurgers, nrecv[s], 0))]
  /\ mtx' = NoThread
  /\ UNCHANGED <<burgersPrepared, burgersServed, configVars, mainpc, backlog,
                 chefpc, ordersProcessed, nrecv, inbox, rd, clientpc, orderNo,
                 clog>>

\* lines 159-163 and 170: serverRunning = false, notify_all (no thread can
\* start or stop waiting meanwhile, the mutex being held), send "No more
\* burgers", break (the lock is released), close the socket
HShut(s) ==
  /\ hpc[s] = "shut"
  /\ serverRunning' = FALSE
  /\ hpc' = [NotifyAll(hpc) EXCEPT ![s] = "done"]
  /\ shutWaiters' = shutWaiters \cup {w \in Sessions : hpc[w] = "wait"}
  /\ sent' = [sent EXCEPT ![s] = Append(@, Msg(NoMoreBurgers, nrecv[s], 0))]
  /\ mtx' = NoThread
  /\ UNCHANGED <<burgersPrepared, burgersServed, configVars, mainpc, backlog,
                 chefpc, ordersProcessed, nrecv, inbox, rd, clientpc, orderNo,
                 clog>>

\* line 166, second half of wait(): a woken handler takes the mutex again;
\* wait() returns, the iteration ends and the lock is released
HRelock(s) ==
  /\ hpc[s] = "relock"
  /\ MutexFree(mtx)
  /\ hpc' = [hpc EXCEPT ![s] = "guard"]
  /\ UNCHANGED <<serverVars, configVars, mtx, mainpc, backlog, chefpc,
                 ordersProcessed, nrecv, inbox, sent, rd, clientpc, orderNo,
                 clog, shutWaiters>>

\* line 166: condition_variable::wait may return without a notification
HSpurious(s) ==
  /\ hpc[s] = "wait"
  /\ hpc' = [hpc EXCEPT ![s] = "relock"]
  /\ UNCHANGED <<serverVars, configVars, mtx, mainpc, backlog, chefpc,
                 ordersProcessed, nrecv, inbox, sent, rd, clientpc, orderNo,
                 clog, shutWaiters>>

\* ---- client.cpp ----
\* the handler has closed its socket (line 170), or the server process is gone
ServerClosed(s) == hpc[s] = "done" \/ mainpc = "exit"

\* client.cpp lines 93 and 102: strncmp looks at the start of the buffer only,
\* so a buffer holding several messages is read as its first message
Classify(buffer) == buffer[1].text

\* client.cpp line 71: connect() succeeds once the server listens; the
\* connection waits in the listen queue until accept() takes it.  Sessions
\* are numbered in the order in which they connect.
ClientConnect(s) ==
  /\ clientpc[s] = "init"
  /\ s <= numClients
  /\ \A t \in Sessions : t < s => clientpc[t] # "init"
  /\ mainpc \notin {"spawn", "exit"}
  /\ backlog' = Append(backlog, s)
  /\ clientpc' = [clientpc EXCEPT ![s] = "send"]
  /\ UNCHANGED <<serverVars, configVars, mtx, mainpc, chefpc, hpc,
                 ordersProcessed, nrecv, inbox, sent, rd, orderNo, clog,
                 shutWaiters>>

\* client.cpp lines 80-86: send "Order"; bytes sent to a closed peer are lost
ClientSend(s) ==
  /\ clientpc[s] = "send"
  /\ inbox' = [inbox EXCEPT ![s] = IF ServerClosed(s) THEN @ ELSE @ + 1]
  /\ clientpc' = [clientpc EXCEPT ![s] = "read"]
  /\ UNCHANGED <<serverVars, configVars, mtx, mainpc, backlog, chefpc, hpc,
                 ordersProcessed, nrecv, sent, rd, orderNo, clog, shutWaiters>>

\* client.cpp lines 88-109: read() returns the bytes that have arrived, one
\* message or several at once, or 0 when the server has closed
ClientRead(s) ==
  /\ clientpc[s] = "read"
  /\ \/ /\ rd[s] < Len(sent[s])
        /\ \E k \in (rd[s] + 1)..Len(sent[s]) :
             LET buffer == SubSeq(sent[s], rd[s] + 1, k)
                 answer == Classify(buffer)
             IN /\ rd' = [rd EXCEPT ![s] = k]
                /\ clog' = [clog EXCEPT ![s] = Append(@, answer)]
                /\ IF answer = BurgerServed
                     THEN /\ orderNo' = [orderNo EXCEPT ![s] = @ + 1]
                          /\ clientpc' = [clientpc EXCEPT ![s] =
                               IF orderNo[s] + 1 < maxOrders[s]
                                 THEN "send" ELSE "done"]
                     ELSE /\ orderNo' = orderNo
                          /\ clientpc' = [clientpc EXCEPT ![s] = "done"]
     \/ /\ rd[s] = Len(sent[s])
        /\ ServerClosed(s)
        /\ clog' = [clog EXCEPT ![s] = Append(@, "EOF")]
        /\ clientpc' = [clientpc EXCEPT ![s] = "done"]
        /\ UNCHANGED <<rd, orderNo>>
  /\ UNCHANGED <<serverVars, configVars, mtx, mainpc, backlog, chefpc, hpc,
                 ordersProcessed, nrecv, inbox, sent, shutWaiters>>

\* the client process is ended from outside while it is connected; its
\* socket is closed, so the handler's next recv() returns 0 or an error
ClientAbort(s) ==
  /\ clientpc[s] \in {"send", "read"}
  /\ clientpc' = [clientpc EXCEPT ![s] = "done"]
  /\ UNCHANGED <<serverVars, configVars, mtx, mainpc, backlog, chefpc, hpc,
                 ordersProcessed, nrecv, inbox, sent, rd, orderNo, clog,
                 shutWaiters>>

\* ---- specifications ----
MainStep == MainSpawn \/ MainTest \/ MainAccept \/ MainJoin

ChefStep(c) == ChefLock(c) \/ ChefInc(c) \/ ChefNotify(c)

HandlerStep(s) ==
  \/ HGuard(s) \/ HRecv(s) \/ HLock(s) \/ HServe(s)
  \/ HShut(s) \/ HRelock(s)

ClientStep(s) == ClientConnect(s) \/ ClientSend(s) \/ ClientRead(s)

\* the steps every scheduler eventually takes when they stay possible
Scheduled ==
  \/ MainStep
  \/ \E c \in Chefs : ChefStep(c)
  \/ \E s \in Sessions : HandlerStep(s)
  \/ \E s \in Sessions : ClientStep(s)

Next ==
  \/ Scheduled
  \/ \E s \in Sessions : HSpurious(s)

Spec == Init /\ [][Next]_vars

\* every thread and every client process that can take a step eventually
\* takes one; a wait() that returns without a notification is never promised
Fairness ==
  /\ WF_vars(MainStep)
  /\ \A c \in Chefs : WF_vars(ChefStep(c))
  /\ \A s \in Sessions : WF_vars(HandlerStep(s))
  /\ \A s \in Sessions : WF_vars(ClientStep(s))

FairSpec == Init /\ [][Next]_vars /\ Fairness

\* the least a scheduler does: while some thread or client process can take
\* a step, eventually one of them takes a step
Progress == WF_vars(Scheduled)

\* the busiest start: every client is started and orders as much as it may
InitBusy ==
  /\ Init
  /\ numClients = MaxSessions
  /\ maxOrders = [s \in Sessions |-> MaxOrders]

ProgressSpec == InitBusy /\ [][Next]_vars /\ Progress

\* sessions that may be cut at any moment: every client is started and orders
\* as much as it may
InitAbort ==
  /\ Init
  /\ numClients = MaxSessions
  /\ maxOrders = [s \in Sessions |-> MaxOrders]

NextAbort ==
  \/ Next
  \/ \E s \in Sessions : ClientAbort(s)

SpecAbort == InitAbort /\ [][NextAbort]_vars

\* ---- observations ----
\* no thread is inside a critical section
NoMutexHeld == mtx = NoThread

\* the "Burger Served" messages sent so far, as <<session, position>>
Grants ==
  UNION {{<<s, i>> : i \in {j \in DOMAIN sent[s] : sent[s][j].text = BurgerServed}} :
         s \in Sessions}

\* the "No more burgers" messages sent so far on session s
Closings(s) == {i \in DOMAIN sent[s] : sent[s][i].text = NoMoreBurgers}

\* the sum of ordersProcessed over the sessions 1..n
RECURSIVE OrdersProcessedUpTo(_)
OrdersProcessedUpTo(n) ==
  IF n = 0 THEN 0 ELSE ordersProcessed[n] + OrdersProcessedUpTo(n - 1)

\* some chef has a notify_all still to issue: it is about to increment or to
\* notify, or it is about to test a quota that is not yet reached
ChefWillNotify ==
  \E c \in Chefs :
    \/ chefpc[c] \in {"inc", "notify"}
    \/ chefpc[c] = "lock" /\ burgersPrepared < maxBurgers

\* ---- claims ----
\* C1: whenever no thread holds the mutex,
\* 0 <= burgersServed <= burgersPrepared <= maxBurgers, for every number of
\* chefs and handlers and every interleaving.
C1_CountersOrdered ==
  NoMutexHeld =>
    /\ 0 <= burgersServed
    /\ burgersServed <= burgersPrepared
    /\ burgersPrepared <= maxBurgers

\* two chefs and two handlers have run, the quota is produced and part of it
\* is served
C1_Witness ==
  /\ NoMutexHeld
  /\ numChefs > 1
  /\ burgersPrepared = maxBurgers
  /\ 0 < burgersServed
  /\ burgersServed < burgersPrepared
  /\ \E c \in Chefs : chefpc[c] = "done"
  /\ Cardinality({s \in Sessions : hpc[s] # "none"}) > 1

\* C2: for a positive quota, whenever no thread holds the mutex,
\* serverRunning is false exactly when burgersServed equals maxBurgers.
C2_ClosedIffSoldOut ==
  (maxBurgers > 0 /\ NoMutexHeld) =>
    (serverRunning = FALSE <=> burgersServed = maxBurgers)

\* the last burger has been served and the handler has left its critical
\* section
C2_Witness ==
  /\ maxBurgers > 0
  /\ NoMutexHeld
  /\ serverRunning = FALSE
  /\ burgersServed = maxBurgers

\* C3: a handler about to grant a burger holds the mutex and sees
\* burgersPrepared > burgersServed; the granted units are pairwise distinct;
\* the number of grants over all sessions never exceeds the quota.
C3_NoDoubleGrant ==
  /\ \A s \in Sessions :
       hpc[s] = "serve" =>
         mtx = HandlerThread(s) /\ burgersPrepared > burgersServed
  /\ \A g, h \in Grants :
       g # h => sent[g[1]][g[2]].unit # sent[h[1]][h[2]].unit
  /\ Cardinality(Grants) <= maxBurgers

\* two sessions have each been granted a burger and the quota is used up
C3_Witness ==
  /\ \E g, h \in Grants : g[1] # h[1]
  /\ Cardinality(Grants) = maxBurgers

\* C4: each request a handler has received is answered by exactly one
\* message, whenever the handler is between two requests or has ended.
C4_OneResponsePerRequest ==
  \A s \in Sessions :
    hpc[s] \in {"guard", "recv", "done"} =>
      \A r \in 1..nrecv[s] :
        Cardinality({i \in DOMAIN sent[s] : sent[s][i].req = r}) = 1

\* C5: with a quota of one burger and one chef, once every started client has
\* been accepted and every handler has ended, exactly one session has been
\* sent "Burger Served" and every other session "No more burgers".
C5_OneWinnerOthersClosed ==
  (/\ maxBurgers = 1
   /\ numChefs = 1
   /\ \A s \in Sessions : s <= numClients => hpc[s] = "done" /\ nrecv[s] > 0)
  =>
  /\ Cardinality({g[1] : g \in Grants}) = 1
  /\ \A s \in Sessions :
       (s <= numClients /\ s \notin {g[1] : g \in Grants}) => Closings(s) # {}

\* C6: a handler blocked in wait() is eventually woken.
C6_WaiterWoken ==
  \A s \in Sessions : (hpc[s] = "wait") ~> (hpc[s] # "wait")

\* C7: a handler that was blocked in wait() when the shop closed has sent
\* "No more burgers" on its session by the time it ends.
C7_WaitersToldClosed ==
  \A s \in shutWaiters : hpc[s] = "done" => Closings(s) # {}

\* C8: once serverRunning is false, no handler enters wait() for the request
\* it processes.
C8_NoWaitAfterClose ==
  [][serverRunning = FALSE =>
       \A s \in Sessions : hpc'[s] = "wait" => hpc[s] = "wait"]_vars

\* C9: one chef and one session that orders once more than the quota: the
\* client eventually ends having read "Burger Served" for each of the first
\* maxBurgers orders and "No more burgers" for the next one.
C9_SequentialOrders ==
  (/\ maxBurgers > 0
   /\ numChefs = 1
   /\ numClients = 1
   /\ maxOrders[1] = maxBurgers + 1)
  =>
  <>(/\ clientpc[1] = "done"
     /\ clog[1] = [i \in 1..(maxBurgers + 1) |->
                     IF i <= maxBurgers THEN BurgerServed ELSE NoMoreBurgers])

\* C10: when every client orders until it is told "No more burgers", the
\* shop eventually has served its whole quota, with exactly maxBurgers
\* grants over all sessions.
C10_QuotaEventuallyServed ==
  (/\ maxBurgers > 0
   /\ \A s \in Sessions : maxOrders[s] > maxBurgers)
  =>
  <>(burgersServed = maxBurgers /\ Cardinality(Grants) = maxBurgers)

\* C11: serverRunning never goes back to true; the shutdown block (flag,
\* notify_all, "No more burgers") runs only as the step that clears the flag,
\* taken by the handler that holds the mutex and has just been granted unit
\* number maxBurgers; once the flag is false it never runs again.
C11_ShutdownOnce ==
  [][/\ serverRunning = FALSE => serverRunning' = FALSE
     /\ (serverRunning /\ ~serverRunning') =>
          \E s \in Sessions : Closings(s)' # Closings(s)
     /\ \A s \in Sessions :
          Closings(s)' # Closings(s) =>
            /\ serverRunning /\ ~serverRunning'
            /\ mtx = HandlerThread(s)
            /\ burgersServed = maxBurgers
            /\ sent[s][Len(sent[s])] = Msg(BurgerServed, nrecv[s], maxBurgers)
            /\ \A o \in Sessions \ {s} : Closings(o)' = Closings(o)]_vars

\* the shop has closed after two handlers were each granted a burger
C11_Witness ==
  /\ serverRunning = FALSE
  /\ Cardinality({g[1] : g \in Grants}) = 2
  /\ Cardinality({s \in Sessions : Closings(s) # {}}) = 1

\* C12: on every session "No more burgers" is sent at most once, it is the
\* last message sent on the session, and the handler has left its loop.
C12_ClosedIsTerminal ==
  \A s \in Sessions :
    /\ Cardinality(Closings(s)) <= 1
    /\ Closings(s) # {} =>
         /\ sent[s][Len(sent[s])].text = NoMoreBurgers
         /\ hpc[s] = "done"

\* a session was sent "Burger Served" and then "No more burgers", while
\* another handler is still running
C12_Witness ==
  \E s, o \in Sessions :
    /\ Closings(s) = {Len(sent[s])}
    /\ Len(sent[s]) >= 2
    /\ o # s
    /\ hpc[o] \notin {"none", "done"}

\* C13: the step by which a handler ends on recv() <= 0 changes neither
\* burgersPrepared, burgersServed nor serverRunning, is taken without the
\* mutex and leaves the mutex as it was, and changes the position of no
\* chef, no other handler and not of main, so that every step they could
\* take before they can take after.
C13_DisconnectIsLocal ==
  [][\A s \in Sessions :
       (hpc[s] = "recv" /\ hpc'[s] = "done") =>
         /\ UNCHANGED serverVars
         /\ mtx # HandlerThread(s)
         /\ mtx' = mtx
         /\ UNCHANGED <<chefpc, mainpc, backlog, ordersProcessed>>
         /\ \A o \in Sessions \ {s} : hpc'[o] = hpc[o]]_vars

\* a client was cut while its handler waited for a burger: the handler has
\* ended with nothing sent, the shop is open and another session has been
\* served since
C13_Witness ==
  \E s, o \in Sessions :
    /\ s # o
    /\ hpc[s] = "done"
    /\ nrecv[s] > 0
    /\ sent[s] = <<>>
    /\ serverRunning
    /\ NoMutexHeld
    /\ burgersServed > 0
    /\ Len(sent[o]) > 0

\* C14: with a quota of 0 (or less) the configuration is rejected: no chef
\* thread and no client handler is ever started.
C14_ZeroQuotaRejected ==
  maxBurgers <= 0 =>
    /\ \A c \in Chefs : chefpc[c] = "idle"
    /\ \A s \in Sessions : hpc[s] = "none"

\* C15: a handler calls recv() for a new request only when every request it
\* has received has been answered: after a wait it goes back to the pending
\* request.
C15_PendingRequestKept ==
  \A s \in Sessions :
    hpc[s] = "recv" =>
      \A r \in 1..nrecv[s] : \E i \in DOMAIN sent[s] : sent[s][i].req = r

\* C16: a chef ends only by the step in which it takes the free mutex and
\* finds burgersPrepared >= maxBurgers; under fair scheduling every started
\* chef eventually has ended, and with a positive quota burgersPrepared
\* eventually equals maxBurgers and stays there.
C16_ChefsTerminate ==
  /\ [][\A c \in Chefs :
          (chefpc[c] # "done" /\ chefpc'[c] = "done") =>
            /\ chefpc[c] = "lock"
            /\ mtx = NoThread
            /\ burgersPrepared >= maxBurgers]_vars
  /\ <>[](\A c \in Chefs : c <= numChefs => chefpc[c] = "done")
  /\ (maxBurgers > 0 /\ numChefs >= 1) => <>[](burgersPrepared = maxBurgers)

\* two chefs have both ended after producing a positive quota
C16_Witness ==
  /\ numChefs = 2
  /\ maxBurgers > 0
  /\ burgersPrepared = maxBurgers
  /\ \A c \in 1..2 : chefpc[c] = "done"

\* C17: the step that increments burgersPrepared releases the mutex and
\* leaves the chef due to notify; the chef's next step, taken without the
\* mutex, moves every handler blocked in wait() at that moment out of the
\* wait; only then can the chef try to produce again; and the notification
\* does eventually come.
C17_ProductionNotifies ==
  /\ [][\A c \in Chefs :
          /\ (chefpc[c] = "inc" /\ chefpc'[c] # "inc") =>
               /\ burgersPrepared' = burgersPrepared + 1
               /\ chefpc'[c] = "notify"
               /\ mtx' = NoThread
          /\ (chefpc[c] = "notify" /\ chefpc'[c] # "notify") =>
               /\ mtx # ChefThread(c)
               /\ chefpc'[c] = "lock"
               /\ \A s \in Sessions : hpc[s] = "wait" => hpc'[s] = "relock"
          /\ (chefpc[c] # "lock" /\ chefpc'[c] = "lock") =>
               chefpc[c] \in {"idle", "notify"}
          /\ (chefpc[c] # "inc" /\ chefpc'[c] = "inc") => chefpc[c] = "lock"]_vars
  /\ \A c \in Chefs : (chefpc[c] = "notify") ~> (chefpc[c] = "lock")

\* a chef has produced and notified, and two handlers are out of the wait,
\* each due to take the mutex again, with the shop open
C17_Witness ==
  /\ serverRunning
  /\ burgersPrepared > burgersServed
  /\ \E c \in Chefs : chefpc[c] \in {"lock", "done"} /\ c <= numChefs
  /\ \A c \in Chefs : chefpc[c] # "notify"
  /\ Cardinality({s \in Sessions : hpc[s] = "relock"}) >= 2

\* C18: a handler that sends a message does not hold the mutex while it
\* sends.
C18_SendOutsideLock ==
  [][\A s \in Sessions : sent'[s] # sent[s] => mtx # HandlerThread(s)]_vars

\* C19: whenever no thread holds the mutex, the ordersProcessed of all
\* sessions add up to burgersServed; so no session's ordersProcessed exceeds
\* burgersServed, and with a positive quota a handler whose ordersProcessed
\* has reached maxBurgers is the one that closed the shop in that iteration.
C19_LocalCountsAddUp ==
  NoMutexHeld =>
    /\ OrdersProcessedUpTo(MaxSessions) = burgersServed
    /\ \A s \in Sessions :
         /\ ordersProcessed[s] <= burgersServed
         /\ (maxBurgers > 0 /\ ordersProcessed[s] >= maxBurgers) =>
              /\ serverRunning = FALSE
              /\ hpc[s] = "done"
              /\ Closings(s) # {}

\* two sessions have each been granted one burger
C19_Witness ==
  /\ NoMutexHeld
  /\ burgersServed = 2
  /\ \A s \in 1..2 : ordersProcessed[s] = 1

\* C20 as stated: whenever a handler is blocked in wait() with
\* burgersPrepared = burgersServed and serverRunning true, then
\* burgersPrepared < maxBurgers and some chef has a notify_all still to
\* issue.
C20_AsStated ==
  \A s \in Sessions :
    (hpc[s] = "wait" /\ serverRunning /\ burgersPrepared = burgersServed) =>
      /\ burgersPrepared < maxBurgers
      /\ ChefWillNotify

\* C20 as amended: whenever a handler is blocked in wait() with
\* burgersPrepared = burgersServed and serverRunning true, some chef has a
\* notify_all still to issue, and burgersPrepared < maxBurgers unless another
\* handler holds the mutex between serving the last burger and clearing
\* serverRunning; and a handler that waits while the shop is open eventually
\* leaves the wait.
C20_NoLostWakeup ==
  /\ [](\A s \in Sessions :
          (hpc[s] = "wait" /\ serverRunning
             /\ burgersPrepared = burgersServed) =>
            /\ ChefWillNotify
            /\ \/ burgersPrepared < maxBurgers
               \/ \E h \in Sessions :
                    hpc[h] = "shut" /\ mtx = HandlerThread(h))
  /\ \A s \in Sessions :
       (hpc[s] = "wait" /\ serverRunning) ~> (hpc[s] # "wait")

\* a handler waits with the shop open after a burger has been produced and
\* served, and there is more to produce
C20_Witness ==
  \E s \in Sessions :
    /\ hpc[s] = "wait"
    /\ serverRunning
    /\ NoMutexHeld
    /\ burgersPrepared = burgersServed
    /\ burgersServed > 0
    /\ burgersPrepared < maxBurgers

====
